---- MODULE Spec2Model ----
(***************************************************************************)
(* Model of the MermaidAnimated component (mermaid-video): the diagram     *)
(* text is classified, handed to the external renderer, parsed into a      *)
(* per-dialect structure when the render call completes, and revealed     *)
(* slot by slot as the frame number advances.                              *)
(*                                                                         *)
(* A diagram text is a record                                              *)
(*   [head, title, lines, svg]                                             *)
(* head  : the leading characters of the text (what detectDiagramType     *)
(*         looks at), a sequence of one-character strings;                 *)
(* title : the text after "pie title" ("" when the text has none);         *)
(* lines : the lines of the body, each the lexical form the parser's       *)
(*         regular expressions distinguish;                                *)
(* svg   : the .node elements the external renderer returns for the text.  *)
(***************************************************************************)
EXTENDS Integers, Sequences, FiniteSets, TLC

VARIABLES
    diagram,            \* prop: the current diagram text
    framesPerElement,   \* prop: frames per reveal slot
    frame,              \* useCurrentFrame()
    inflight,           \* render calls awaited by parseDiagram, oldest first
    flowData,           \* useState: flowchart structure or Null
    pieData,            \* useState: pie structure or Null
    seqData,            \* useState: sequence structure or Null
    stateData,          \* useState: state-diagram structure or Null
    mindmapData,        \* useState: mindmap structure or Null
    outcome,            \* history: how the call started for the current text ended
    staleApplied        \* history: a completion for a superseded text stored the displayed structure

vars == <<diagram, framesPerElement, frame, inflight, flowData, pieData, seqData,
          stateData, mindmapData, outcome, staleApplied>>

Null == [null |-> TRUE]

(***************************************************************************)
(* Bounds of the model.                                                    *)
(***************************************************************************)
MaxFrame == 4
MaxInflight == 2
MaxPieValue == 2
MaxPieLines == 2
MaxSeqLines == 3
MaxStateLines == 3
MaxMindLines == 4
MaxFlowLines == 2
MaxCycleLines == 2

(***************************************************************************)
(* JavaScript numbers: exact rationals n/d (d > 0, lowest terms), with     *)
(* d = 0 for the non-finite values: NaN = 0/0, Infinity = 1/0,             *)
(* -Infinity = -1/0.  Angles are kept as multiples of pi.                  *)
(***************************************************************************)
Abs(i) == IF i < 0 THEN -i ELSE i

RECURSIVE GCD(_, _)
GCD(a, b) == IF b = 0 THEN a ELSE GCD(b, a % b)

Sign(i) == IF i < 0 THEN -1 ELSE IF i > 0 THEN 1 ELSE 0

Rat(n, d) ==
    IF d = 0 THEN [n |-> Sign(n), d |-> 0]
    ELSE LET g == GCD(Abs(n), Abs(d))
             s == Sign(d)
         IN  [n |-> s * (Abs(n) \div g) * Sign(n), d |-> Abs(d) \div g]

Num(i) == [n |-> i, d |-> 1]
NaN == [n |-> 0, d |-> 0]
Infinity == [n |-> 1, d |-> 0]

IsNaN(a) == a.n = 0 /\ a.d = 0
IsFinite(a) == a.d # 0

JsNeg(a) == [n |-> -a.n, d |-> a.d]

JsAdd(a, b) ==
    IF IsFinite(a) /\ IsFinite(b) THEN Rat(a.n * b.d + b.n * a.d, a.d * b.d)
    ELSE IF IsNaN(a) \/ IsNaN(b) THEN NaN
    ELSE IF ~IsFinite(a) /\ ~IsFinite(b) /\ a.n # b.n THEN NaN
    ELSE IF ~IsFinite(a) THEN a ELSE b

JsSub(a, b) == JsAdd(a, JsNeg(b))

JsMul(a, b) ==
    IF IsFinite(a) /\ IsFinite(b) THEN Rat(a.n * b.n, a.d * b.d)
    ELSE IF IsNaN(a) \/ IsNaN(b) \/ a.n = 0 \/ b.n = 0 THEN NaN
    ELSE [n |-> Sign(a.n) * Sign(b.n), d |-> 0]

JsDiv(a, b) ==
    IF IsNaN(a) \/ IsNaN(b) THEN NaN
    ELSE IF ~IsFinite(a) /\ ~IsFinite(b) THEN NaN
    ELSE IF ~IsFinite(b) THEN Num(0)
    ELSE IF ~IsFinite(a) THEN [n |-> a.n * (IF b.n < 0 THEN -1 ELSE 1), d |-> 0]
    ELSE Rat(a.n * b.d, a.d * b.n)

\* a < b as JavaScript evaluates it (false when either is NaN)
JsLt(a, b) ==
    IF IsNaN(a) \/ IsNaN(b) THEN FALSE
    ELSE IF IsFinite(a) /\ IsFinite(b) THEN a.n * b.d < b.n * a.d
    ELSE IF ~IsFinite(a) /\ ~IsFinite(b) THEN a.n < b.n
    ELSE IF ~IsFinite(a) THEN a.n < 0
    ELSE b.n > 0

JsLe(a, b) == ~IsNaN(a) /\ ~IsNaN(b) /\ (a = b \/ JsLt(a, b))

\* Math.min(a, b)
JsMin(a, b) ==
    IF IsNaN(a) \/ IsNaN(b) THEN NaN
    ELSE IF JsLt(b, a) THEN b ELSE a

\* Math.PI, in units of pi
PI == Num(1)

(***************************************************************************)
(* Characters and strings of the header line.                              *)
(***************************************************************************)
Upper == <<"A","B","C","D","E","F","G","H","I","J","K","L","M",
           "N","O","P","Q","R","S","T","U","V","W","X","Y","Z">>
Lower == <<"a","b","c","d","e","f","g","h","i","j","k","l","m",
           "n","o","p","q","r","s","t","u","v","w","x","y","z">>

ToLowerChar(c) ==
    IF \E i \in DOMAIN Upper : Upper[i] = c
    THEN Lower[CHOOSE i \in DOMAIN Upper : Upper[i] = c]
    ELSE c

toLowerCase(s) == [i \in DOMAIN s |-> ToLowerChar(s[i])]

IsSpace(c) == c \in {" ", "\n", "\t"}

RECURSIVE TrimStart(_)
TrimStart(s) ==
    IF s # <<>> /\ IsSpace(Head(s)) THEN TrimStart(Tail(s)) ELSE s

RECURSIVE TrimEnd(_)
TrimEnd(s) ==
    IF s # <<>> /\ IsSpace(s[Len(s)]) THEN TrimEnd(SubSeq(s, 1, Len(s) - 1)) ELSE s

trim(s) == TrimEnd(TrimStart(s))

startsWith(s, p) == Len(s) >= Len(p) /\ SubSeq(s, 1, Len(p)) = p

detectDiagramType(d) ==
    LET trimmed == toLowerCase(trim(d.head))
    IN  IF startsWith(trimmed, <<"f","l","o","w","c","h","a","r","t">>)
           \/ startsWith(trimmed, <<"g","r","a","p","h">>) THEN "flowchart"
        ELSE IF startsWith(trimmed, <<"s","e","q","u","e","n","c","e",
                                      "d","i","a","g","r","a","m">>) THEN "sequence"
        ELSE IF startsWith(trimmed, <<"p","i","e">>) THEN "pie"
        ELSE IF startsWith(trimmed, <<"s","t","a","t","e",
                                      "d","i","a","g","r","a","m">>) THEN "state"
        ELSE IF startsWith(trimmed, <<"m","i","n","d","m","a","p">>) THEN "mindmap"
        ELSE "unknown"

(***************************************************************************)
(* Pie chart.  A body line is [k |-> "entry", label, value] when it        *)
(* matches /"([^"]+)"\s*:\s*(\d+)/ (value: the digits, a natural number)   *)
(* and [k |-> "other"] when it does not.                                   *)
(***************************************************************************)
RECURSIVE PieRawSegments(_)
PieRawSegments(lines) ==
    IF lines = <<>> THEN <<>>
    ELSE LET line == Head(lines)
         IN  IF line.k = "entry"
             THEN <<[label |-> line.label, value |-> line.value]>>
                      \o PieRawSegments(Tail(lines))
             ELSE PieRawSegments(Tail(lines))

RECURSIVE PieTotalValue(_)
PieTotalValue(raw) ==
    IF raw = <<>> THEN 0 ELSE Head(raw).value + PieTotalValue(Tail(raw))

\* rawSegments.forEach: the segments pushed from raw[i..], currentAngle on entry
\* a variant that starts every segment at the same angle
RECURSIVE PieSegmentsFromSameStart(_, _, _, _)
PieSegmentsFromSameStart(raw, i, totalValue, currentAngle) ==
    IF i > Len(raw) THEN <<>>
    ELSE LET seg == raw[i]
             angle == JsMul(JsMul(JsDiv(Num(seg.value), Num(totalValue)), PI), Num(2))
         IN  <<[label |-> seg.label,
                value |-> seg.value,
                color |-> (i - 1) % 10,
                startAngle |-> currentAngle,
                endAngle |-> JsAdd(currentAngle, angle)]>>
             \o PieSegmentsFromSameStart(raw, i + 1, totalValue, currentAngle)

RECURSIVE PieSegmentsFrom(_, _, _, _)
PieSegmentsFrom(raw, i, totalValue, currentAngle) ==
    IF i > Len(raw) THEN <<>>
    ELSE LET seg == raw[i]
             angle == JsMul(JsMul(JsDiv(Num(seg.value), Num(totalValue)), PI), Num(2))
         IN  <<[label |-> seg.label,
                value |-> seg.value,
                color |-> (i - 1) % 10,
                startAngle |-> currentAngle,
                endAngle |-> JsAdd(currentAngle, angle)]>>
             \o PieSegmentsFrom(raw, i + 1, totalValue, JsAdd(currentAngle, angle))

parsePieChart(d) ==
    LET title == IF d.title # "" THEN d.title ELSE "Pie Chart"
        rawSegments == PieRawSegments(d.lines)
        totalValue == PieTotalValue(rawSegments)
    IN  [segments |-> PieSegmentsFrom(rawSegments, 1, totalValue,
                                      JsDiv(JsNeg(PI), Num(2))),
         title |-> title]

(***************************************************************************)
(* Sequence diagram.  Body lines:                                          *)
(*   [k |-> "participant", id, as]   /participant\s+(\w+)(?:\s+as\s+(.+))?/i *)
(*                                   (as = "" when there is no alias)      *)
(*   [k |-> "message", from, to, dashed, text]                             *)
(*                                   /(\w+)\s*(--?>>?)\s*(\w+)\s*:\s*(.+)/ *)
(*   [k |-> "other"]                 a line neither expression matches     *)
(***************************************************************************)
ActorX0 == 120
ActorDX == 180
MessageY0 == 100
MessageDY == 60
HeightMargin == 80

\* Map.set(key, value) on a map kept as a function
MapSet(m, key, value) == [x \in (DOMAIN m) \cup {key} |-> IF x = key THEN value ELSE m[x]]

EmptyMap == [x \in {} |-> 0]

\* Step 1 of parseSequence: [actors, actorMap] after the lines from i on
RECURSIVE SeqActorsFrom(_, _, _, _)
SeqActorsFrom(lines, i, actors, actorMap) ==
    IF i > Len(lines) THEN [actors |-> actors, actorMap |-> actorMap]
    ELSE LET line == lines[i]
         IN  IF line.k = "participant"
             THEN LET displayName == IF line.as # "" THEN line.as ELSE line.id
                      xPos == ActorX0 + ActorDX * Len(actors)
                  IN  SeqActorsFrom(lines, i + 1,
                                    Append(actors, [name |-> displayName, x |-> xPos]),
                                    MapSet(actorMap, line.id, Len(actors)))
             ELSE SeqActorsFrom(lines, i + 1, actors, actorMap)

\* Step 2 of parseSequence: the messages pushed from line i on
\* a variant that advances yPos for every message line, emitted or not
RECURSIVE SeqMessagesFromStepPerLine(_, _, _, _)
SeqMessagesFromStepPerLine(lines, i, actorMap, messages) ==
    IF i > Len(lines) THEN messages
    ELSE LET line == lines[i]
             seen == Cardinality({j \in 1..(i - 1) : lines[j].k = "message"})
         IN  IF line.k = "message"
                /\ line.from \in DOMAIN actorMap /\ line.to \in DOMAIN actorMap
             THEN SeqMessagesFromStepPerLine(lines, i + 1, actorMap,
                      Append(messages,
                             [from |-> actorMap[line.from],
                              to |-> actorMap[line.to],
                              text |-> line.text,
                              y |-> MessageY0 + MessageDY * seen,
                              type |-> IF line.dashed THEN "dashed" ELSE "solid"]))
             ELSE SeqMessagesFromStepPerLine(lines, i + 1, actorMap, messages)

\* a variant that checks only the sender of a message: the receiver of a
\* message to an undeclared participant is undefined (-1 here)
RECURSIVE SeqMessagesFromSenderOnly(_, _, _, _)
SeqMessagesFromSenderOnly(lines, i, actorMap, messages) ==
    IF i > Len(lines) THEN messages
    ELSE LET line == lines[i]
         IN  IF line.k = "message" /\ line.from \in DOMAIN actorMap
             THEN SeqMessagesFromSenderOnly(lines, i + 1, actorMap,
                      Append(messages,
                             [from |-> actorMap[line.from],
                              to |-> IF line.to \in DOMAIN actorMap
                                     THEN actorMap[line.to] ELSE -1,
                              text |-> line.text,
                              y |-> MessageY0 + MessageDY * Len(messages),
                              type |-> IF line.dashed THEN "dashed" ELSE "solid"]))
             ELSE SeqMessagesFromSenderOnly(lines, i + 1, actorMap, messages)

RECURSIVE SeqMessagesFrom(_, _, _, _)
SeqMessagesFrom(lines, i, actorMap, messages) ==
    IF i > Len(lines) THEN messages
    ELSE LET line == lines[i]
         IN  IF line.k = "message"
                /\ line.from \in DOMAIN actorMap /\ line.to \in DOMAIN actorMap
             THEN SeqMessagesFrom(lines, i + 1, actorMap,
                      Append(messages,
                             [from |-> actorMap[line.from],
                              to |-> actorMap[line.to],
                              text |-> line.text,
                              y |-> MessageY0 + MessageDY * Len(messages),
                              type |-> IF line.dashed THEN "dashed" ELSE "solid"]))
             ELSE SeqMessagesFrom(lines, i + 1, actorMap, messages)

parseSequence(d) ==
    LET step1 == SeqActorsFrom(d.lines, 1, <<>>, EmptyMap)
        messages == SeqMessagesFrom(d.lines, 1, step1.actorMap, <<>>)
        yPos == MessageY0 + MessageDY * Len(messages)
    IN  [actors |-> step1.actors, messages |-> messages, height |-> yPos + HeightMargin]

(***************************************************************************)
(* State diagram.  A body line is [k |-> "trans", from, to, label] for     *)
(* "from --> to [: label]" where from and to are words or the marker       *)
(* "[*]" (label = "" when there is none), or [k |-> "other"].              *)
(***************************************************************************)
StartId == "[*]start"
EndId == "[*]end"
Star == "[*]"
DefaultLevel == 3
XSpacing == 180
YSpacing == 120
StartX == 100
CenterY == 300

\* Set.add on an insertion-ordered set kept as a sequence
SetAdd(s, x) == IF \E i \in DOMAIN s : s[i] = x THEN s ELSE Append(s, x)

IndexOf(s, x) == IF \E i \in DOMAIN s : s[i] = x
                 THEN (CHOOSE i \in DOMAIN s : s[i] = x /\ \A j \in 1..(i - 1) : s[j] # x) - 1
                 ELSE -1

\* Step 1 of parseStateDiagram: [stateSet, transitions] after the lines from i on
RECURSIVE StateCollectFrom(_, _, _, _)
StateCollectFrom(lines, i, stateSet, transitions) ==
    IF i > Len(lines) THEN [stateSet |-> stateSet, transitions |-> transitions]
    ELSE LET line == lines[i]
         IN  IF line.k # "trans" THEN StateCollectFrom(lines, i + 1, stateSet, transitions)
             ELSE IF line.from = Star /\ line.to # Star
             THEN \* startMatch
                  StateCollectFrom(lines, i + 1,
                      SetAdd(SetAdd(stateSet, StartId), line.to),
                      Append(transitions, [from |-> StartId, to |-> line.to, label |-> ""]))
             ELSE IF line.from # Star /\ line.to = Star /\ line.label = ""
             THEN \* endMatch
                  StateCollectFrom(lines, i + 1,
                      SetAdd(SetAdd(stateSet, line.from), EndId),
                      Append(transitions, [from |-> line.from, to |-> EndId, label |-> ""]))
             ELSE IF line.from # Star /\ line.to # Star
             THEN \* transMatch
                  StateCollectFrom(lines, i + 1,
                      SetAdd(SetAdd(stateSet, line.from), line.to),
                      Append(transitions,
                             [from |-> line.from, to |-> line.to, label |-> line.label]))
             ELSE StateCollectFrom(lines, i + 1, stateSet, transitions)

SeqToSet(s) == {s[i] : i \in DOMAIN s}

\* inDegree after transitions.forEach
StateInDegree(stateSet, transitions) ==
    [s \in SeqToSet(stateSet) |->
        Cardinality({i \in DOMAIN transitions : transitions[i].to = s})]

\* adjacency.get(s): the targets of the transitions leaving s, in text order
RECURSIVE StateAdjacency(_, _, _)
StateAdjacency(transitions, i, s) ==
    IF i > Len(transitions) THEN <<>>
    ELSE IF transitions[i].from = s
         THEN <<transitions[i].to>> \o StateAdjacency(transitions, i + 1, s)
         ELSE StateAdjacency(transitions, i + 1, s)

\* levels is a Map: a sequence of [state, level] in insertion order
LevelsHas(levels, s) == \E i \in DOMAIN levels : levels[i].state = s
LevelsGet(levels, s) == levels[CHOOSE i \in DOMAIN levels : levels[i].state = s].level

\* a variant that seeds the traversal with the start marker only
RECURSIVE StateSeedsStartOnly(_, _, _)
StateSeedsStartOnly(stateSet, i, inDegree) ==
    IF i > Len(stateSet) THEN <<>>
    ELSE IF stateSet[i] = StartId
         THEN <<stateSet[i]>> \o StateSeedsStartOnly(stateSet, i + 1, inDegree)
         ELSE StateSeedsStartOnly(stateSet, i + 1, inDegree)

\* the seeds: queue and levels after the first stateSet.forEach
RECURSIVE StateSeeds(_, _, _)
StateSeeds(stateSet, i, inDegree) ==
    IF i > Len(stateSet) THEN <<>>
    ELSE IF inDegree[stateSet[i]] = 0 \/ stateSet[i] = StartId
         THEN <<stateSet[i]>> \o StateSeeds(stateSet, i + 1, inDegree)
         ELSE StateSeeds(stateSet, i + 1, inDegree)

\* neighbors.forEach of one dequeued state: [queue, levels]
RECURSIVE StateVisitNeighbors(_, _, _, _, _)
StateVisitNeighbors(neighbors, j, currentLevel, queue, levels) ==
    IF j > Len(neighbors) THEN [queue |-> queue, levels |-> levels]
    ELSE IF ~LevelsHas(levels, neighbors[j])
         THEN StateVisitNeighbors(neighbors, j + 1, currentLevel,
                  Append(queue, neighbors[j]),
                  Append(levels, [state |-> neighbors[j], level |-> currentLevel + 1]))
         ELSE StateVisitNeighbors(neighbors, j + 1, currentLevel, queue, levels)

\* while (queue.length > 0)
RECURSIVE StateBfs(_, _, _)
StateBfs(transitions, queue, levels) ==
    IF queue = <<>> THEN levels
    ELSE LET current == Head(queue)
             currentLevel == LevelsGet(levels, current)
             r == StateVisitNeighbors(StateAdjacency(transitions, 1, current), 1,
                                      currentLevel, Tail(queue), levels)
         IN  StateBfs(transitions, r.queue, r.levels)

\* the last stateSet.forEach of the leveling: states left without a level
RECURSIVE StateDefaultLevels(_, _, _)
StateDefaultLevels(stateSet, i, levels) ==
    IF i > Len(stateSet) THEN levels
    ELSE IF ~LevelsHas(levels, stateSet[i])
         THEN StateDefaultLevels(stateSet, i + 1,
                  Append(levels, [state |-> stateSet[i], level |-> DefaultLevel]))
         ELSE StateDefaultLevels(stateSet, i + 1, levels)

StateLevels(stateSet, transitions) ==
    LET inDegree == StateInDegree(stateSet, transitions)
        seeds == StateSeeds(stateSet, 1, inDegree)
        seeded == [i \in DOMAIN seeds |-> [state |-> seeds[i], level |-> 0]]
    IN  StateDefaultLevels(stateSet, 1, StateBfs(transitions, seeds, seeded))

\* levelGroups.get(level): the states of that level in levels' insertion order
RECURSIVE LevelGroup(_, _, _)
LevelGroup(levels, i, level) ==
    IF i > Len(levels) THEN <<>>
    ELSE IF levels[i].level = level
         THEN <<levels[i].state>> \o LevelGroup(levels, i + 1, level)
         ELSE LevelGroup(levels, i + 1, level)

\* a variant that stacks a level's states downwards from the baseline
StateNodeOfFromBaseline(state, levels) ==
    LET level == LevelsGet(levels, state)
        group == LevelGroup(levels, 1, level)
        indexInGroup == IndexOf(group, state)
        groupSize == Len(group)
    IN  [id |-> state,
         label |-> IF state \in {StartId, EndId} THEN "" ELSE state,
         x |-> StartX + level * XSpacing,
         y |-> JsAdd(Num(CenterY),
                     JsMul(Num(indexInGroup), Num(YSpacing))),
         isStart |-> state = StartId,
         isEnd |-> state = EndId]

\* y = centerY + (indexInGroup - (groupSize - 1) / 2) * ySpacing
StateNodeOf(state, levels) ==
    LET level == LevelsGet(levels, state)
        group == LevelGroup(levels, 1, level)
        indexInGroup == IndexOf(group, state)
        groupSize == Len(group)
    IN  [id |-> state,
         label |-> IF state \in {StartId, EndId} THEN "" ELSE state,
         x |-> StartX + level * XSpacing,
         y |-> JsAdd(Num(CenterY),
                     JsMul(JsSub(Num(indexInGroup), JsDiv(Num(groupSize - 1), Num(2))),
                           Num(YSpacing))),
         isStart |-> state = StartId,
         isEnd |-> state = EndId]

parseStateDiagram(d) ==
    LET step1 == StateCollectFrom(d.lines, 1, <<>>, <<>>)
        levels == StateLevels(step1.stateSet, step1.transitions)
    IN  [nodes |-> [i \in DOMAIN step1.stateSet |-> StateNodeOf(step1.stateSet[i], levels)],
         transitions |-> step1.transitions]

(***************************************************************************)
(* Mindmap.  A body line is [k |-> "node", indent, label, rootForm]:       *)
(* indent is the number of leading white-space characters, label the       *)
(* trimmed text (the inner text when rootForm, i.e. the line matches       *)
(* /root\(\((.+)\)\)/), or [k |-> "blank"] for an empty line.  A position  *)
(* is kept in polar form about (centerX, centerY): x = centerX +           *)
(* radius * cos(angle), y = centerY + radius * sin(angle).                 *)
(***************************************************************************)
IndentPerLevel == 4
BranchRadius == 160
RadiusStep == 120
SpreadDivisor == 6

NodeIdNames == <<"node-0", "node-1", "node-2", "node-3", "node-4",
                 "node-5", "node-6", "node-7", "node-8", "node-9">>

MindLevel(line) == line.indent \div IndentPerLevel

\* a variant that counts every node line, whatever its level
MindBranchCountAllLevels(lines) ==
    Cardinality({i \in DOMAIN lines : lines[i].k = "node"})

\* Step 1 of parseMindmap: the number of lines at level 1
MindBranchCount(lines) ==
    Cardinality({i \in DOMAIN lines : lines[i].k = "node" /\ MindLevel(lines[i]) = 1})

\* while (levelStack.length > 0 && top.level >= level) levelStack.pop()
RECURSIVE MindPop(_, _)
MindPop(levelStack, level) ==
    IF levelStack # <<>> /\ levelStack[Len(levelStack)].level >= level
    THEN MindPop(SubSeq(levelStack, 1, Len(levelStack) - 1), level)
    ELSE levelStack

\* childCountPerParent[parentId], 0 when absent
MindChildCount(counts, parentId) ==
    IF parentId \in DOMAIN counts THEN counts[parentId] ELSE 0

\* Step 2 of parseMindmap: one line applied to the accumulated state st =
\* [nodes, connections, levelStack, currentBranchIndex, childCountPerParent]
MindLine(st, line, branchCount) ==
    IF line.k # "node" THEN st
    ELSE
    LET level == MindLevel(line)
        id == NodeIdNames[Len(st.nodes) + 1]
    IN  IF level = 0
        THEN [st EXCEPT
                !.nodes = Append(@, [id |-> id, label |-> line.label, level |-> level,
                                     angle |-> Num(0), radius |-> 0,
                                     parentId |-> "", isRoot |-> TRUE]),
                !.levelStack = <<[id |-> id, level |-> 0, branchAngle |-> Num(0)]>>]
        ELSE
        LET popped == MindPop(st.levelStack, level)
            hasParent == popped # <<>>
            parent == popped[Len(popped)]
            branchAngle1 ==
                JsSub(JsMul(JsMul(JsDiv(Num(st.currentBranchIndex), Num(branchCount)),
                                  PI), Num(2)),
                      JsDiv(PI, Num(2)))
            childIndex == MindChildCount(st.childCountPerParent, parent.id)
            childAngle ==
                JsAdd(parent.branchAngle,
                      JsMul(Num(childIndex - 1), JsDiv(PI, Num(SpreadDivisor))))
            branchAngle == IF ~hasParent THEN Num(0)
                           ELSE IF level = 1 THEN branchAngle1 ELSE childAngle
            radius == IF ~hasParent THEN 0
                      ELSE IF level = 1 THEN BranchRadius
                      ELSE BranchRadius + (level - 1) * RadiusStep
        IN  [nodes |-> Append(st.nodes,
                          [id |-> id, label |-> line.label, level |-> level,
                           angle |-> branchAngle, radius |-> radius,
                           parentId |-> IF hasParent THEN parent.id ELSE "",
                           isRoot |-> FALSE]),
             connections |-> IF hasParent
                             THEN Append(st.connections, [from |-> parent.id, to |-> id])
                             ELSE st.connections,
             levelStack |-> Append(popped,
                                [id |-> id, level |-> level, branchAngle |-> branchAngle]),
             currentBranchIndex |-> IF hasParent /\ level = 1
                                    THEN st.currentBranchIndex + 1
                                    ELSE st.currentBranchIndex,
             childCountPerParent |-> IF hasParent /\ level # 1
                                     THEN MapSet(st.childCountPerParent, parent.id,
                                                 childIndex + 1)
                                     ELSE st.childCountPerParent]

RECURSIVE MindFold(_, _, _, _)
MindFold(lines, i, st, branchCount) ==
    IF i > Len(lines) THEN st
    ELSE MindFold(lines, i + 1, MindLine(st, lines[i], branchCount), branchCount)

MindStart == [nodes |-> <<>>, connections |-> <<>>, levelStack |-> <<>>,
              currentBranchIndex |-> 0, childCountPerParent |-> EmptyMap]

parseMindmap(d) ==
    LET st == MindFold(d.lines, 1, MindStart, MindBranchCount(d.lines))
    IN  [nodes |-> st.nodes, connections |-> st.connections]

(***************************************************************************)
(* Flowchart.  svg is the sequence of .node elements of the rendered       *)
(* diagram in document order, each [id, x, y, width, height, shape] with   *)
(* the identifier already cleaned.  A body line is                         *)
(*   [k |-> "chain", refs, arrows]                                         *)
(* for node references refs[1..n] separated by the arrow tokens            *)
(* arrows[1..n-1], each one of "-->", "---", "==>", "-.->".                *)
(* The viewBox of the structure plays no part in ordering or timing and    *)
(* is left out.                                                            *)
(***************************************************************************)
DetourX == 50
DetourY == 30

\* nodeMap.set(cleanId, node) over the .node elements: an insertion-ordered Map
RECURSIVE FlowNodeMap(_, _, _)
FlowNodeMap(svg, i, nodeMap) ==
    IF i > Len(svg) THEN nodeMap
    ELSE LET node == svg[i]
         IN  IF \E j \in DOMAIN nodeMap : nodeMap[j].id = node.id
             THEN FlowNodeMap(svg, i + 1,
                      [j \in DOMAIN nodeMap |->
                          IF nodeMap[j].id = node.id THEN node ELSE nodeMap[j]])
             ELSE FlowNodeMap(svg, i + 1, Append(nodeMap, node))

MapHas(nodeMap, id) == \E j \in DOMAIN nodeMap : nodeMap[j].id = id
MapGet(nodeMap, id) == nodeMap[CHOOSE j \in DOMAIN nodeMap : nodeMap[j].id = id]

\* line.split(/(-->|---|-\.-|==>)(?:\|[^|]*\|)?/) followed by part.match(/^(\w+)/):
\* the part after "-->", "---" or "==>" starts with the next reference; the
\* expression takes only "-.-" of a dotted arrow "-.->", so the part after it
\* starts with ">" and yields no identifier.
RECURSIVE FlowLineIds(_, _)
FlowLineIds(line, i) ==
    IF i > Len(line.refs) THEN <<>>
    ELSE IF i = 1 \/ line.arrows[i - 1] \in {"-->", "---", "==>"}
         THEN <<line.refs[i]>> \o FlowLineIds(line, i + 1)
         ELSE FlowLineIds(line, i + 1)

\* lineEdges: currentFrom chained over the identifiers of one line
FlowLineEdges(ids) ==
    [i \in 1..(Len(ids) - 1) |-> [from |-> ids[i], to |-> ids[i + 1]]]

Pt(x, y) == [x |-> x, y |-> y]

\* a variant that takes the vertical branch also when |dy| = |dx|
calculateEdgePointsVerticalOnTie(from, to) ==
    LET dx == to.x - from.x
        dy == to.y - from.y
        fx == Num(from.x)
        fy == Num(from.y)
        tx == Num(to.x)
        ty == Num(to.y)
        fw2 == JsDiv(Num(from.width), Num(2))
        fh2 == JsDiv(Num(from.height), Num(2))
        tw2 == JsDiv(Num(to.width), Num(2))
        th2 == JsDiv(Num(to.height), Num(2))
    IN  IF Abs(dy) >= Abs(dx)
        THEN IF dy > 0
             THEN <<Pt(fx, JsAdd(fy, fh2)), Pt(tx, JsSub(ty, th2))>>
             ELSE <<Pt(JsAdd(fx, fw2), fy),
                    Pt(JsAdd(JsAdd(fx, fw2), Num(DetourX)), JsSub(fy, Num(DetourY))),
                    Pt(JsAdd(JsAdd(tx, tw2), Num(DetourX)),
                       JsAdd(JsAdd(ty, th2), Num(DetourY))),
                    Pt(JsAdd(tx, tw2), JsAdd(ty, th2))>>
        ELSE IF dx > 0
             THEN <<Pt(JsAdd(fx, fw2), fy), Pt(JsSub(tx, tw2), ty)>>
             ELSE <<Pt(JsSub(fx, fw2), fy), Pt(JsAdd(tx, tw2), ty)>>

calculateEdgePoints(from, to) ==
    LET dx == to.x - from.x
        dy == to.y - from.y
        fx == Num(from.x)
        fy == Num(from.y)
        tx == Num(to.x)
        ty == Num(to.y)
        fw2 == JsDiv(Num(from.width), Num(2))
        fh2 == JsDiv(Num(from.height), Num(2))
        tw2 == JsDiv(Num(to.width), Num(2))
        th2 == JsDiv(Num(to.height), Num(2))
    IN  IF Abs(dy) > Abs(dx)
        THEN IF dy > 0
             THEN <<Pt(fx, JsAdd(fy, fh2)), Pt(tx, JsSub(ty, th2))>>
             ELSE <<Pt(JsAdd(fx, fw2), fy),
                    Pt(JsAdd(JsAdd(fx, fw2), Num(DetourX)), JsSub(fy, Num(DetourY))),
                    Pt(JsAdd(JsAdd(tx, tw2), Num(DetourX)),
                       JsAdd(JsAdd(ty, th2), Num(DetourY))),
                    Pt(JsAdd(tx, tw2), JsAdd(ty, th2))>>
        ELSE IF dx > 0
             THEN <<Pt(JsAdd(fx, fw2), fy), Pt(JsSub(tx, tw2), ty)>>
             ELSE <<Pt(JsSub(fx, fw2), fy), Pt(JsAdd(tx, tw2), ty)>>

\* lineEdges.forEach: the edges of one line whose two ends have geometry
RECURSIVE FlowAccept(_, _, _)
FlowAccept(lineEdges, i, nodeMap) ==
    IF i > Len(lineEdges) THEN <<>>
    ELSE LET e == lineEdges[i]
         IN  IF MapHas(nodeMap, e.from) /\ MapHas(nodeMap, e.to)
             THEN <<[from |-> e.from, to |-> e.to,
                     points |-> calculateEdgePoints(MapGet(nodeMap, e.from),
                                                    MapGet(nodeMap, e.to))]>>
                  \o FlowAccept(lineEdges, i + 1, nodeMap)
             ELSE FlowAccept(lineEdges, i + 1, nodeMap)

\* lines.forEach of Step 2
RECURSIVE FlowEdges(_, _, _)
FlowEdges(lines, i, nodeMap) ==
    IF i > Len(lines) THEN <<>>
    ELSE IF lines[i].k = "chain"
         THEN FlowAccept(FlowLineEdges(FlowLineIds(lines[i], 1)), 1, nodeMap)
              \o FlowEdges(lines, i + 1, nodeMap)
         ELSE FlowEdges(lines, i + 1, nodeMap)

\* Array.prototype.sort (stable) of node identifiers by (nodeMap.get(a)?.y || 0)
RECURSIVE InsertByY(_, _, _)
InsertByY(sorted, id, nodeMap) ==
    IF sorted = <<>> THEN <<id>>
    ELSE IF MapGet(nodeMap, sorted[Len(sorted)]).y <= MapGet(nodeMap, id).y
         THEN Append(sorted, id)
         ELSE Append(InsertByY(SubSeq(sorted, 1, Len(sorted) - 1), id, nodeMap),
                     sorted[Len(sorted)])

RECURSIVE SortByY(_, _)
SortByY(ids, nodeMap) ==
    IF ids = <<>> THEN <<>>
    ELSE InsertByY(SortByY(SubSeq(ids, 1, Len(ids) - 1), nodeMap), ids[Len(ids)], nodeMap)

\* adjacency.get(id): the targets of the edges leaving id, in edge order
RECURSIVE TopoAdjacency(_, _, _)
TopoAdjacency(edges, i, id) ==
    IF i > Len(edges) THEN <<>>
    ELSE IF edges[i].from = id
         THEN <<edges[i].to>> \o TopoAdjacency(edges, i + 1, id)
         ELSE TopoAdjacency(edges, i + 1, id)

TopoInDegree(nodeMap, edges) ==
    [id \in {nodeMap[j].id : j \in DOMAIN nodeMap} |->
        Cardinality({i \in DOMAIN edges : edges[i].to = id})]

\* neighbors.forEach of one removed node: [inDegree, nextNodes]
\* a variant that queues a neighbour as soon as one of its sources is
\* processed, whatever its remaining in-degree
RECURSIVE TopoNeighborsEager(_, _, _, _, _)
TopoNeighborsEager(neighbors, j, inDegree, visited, nextNodes) ==
    IF j > Len(neighbors) THEN [inDegree |-> inDegree, nextNodes |-> nextNodes]
    ELSE LET neighbor == neighbors[j]
             newDegree == (IF inDegree[neighbor] = 0 THEN 1 ELSE inDegree[neighbor]) - 1
         IN  TopoNeighborsEager(neighbors, j + 1,
                 [inDegree EXCEPT ![neighbor] = newDegree], visited,
                 IF neighbor \notin visited
                 THEN Append(nextNodes, neighbor) ELSE nextNodes)

RECURSIVE TopoNeighbors(_, _, _, _, _)
TopoNeighbors(neighbors, j, inDegree, visited, nextNodes) ==
    IF j > Len(neighbors) THEN [inDegree |-> inDegree, nextNodes |-> nextNodes]
    ELSE LET neighbor == neighbors[j]
             newDegree == (IF inDegree[neighbor] = 0 THEN 1 ELSE inDegree[neighbor]) - 1
         IN  TopoNeighbors(neighbors, j + 1,
                 [inDegree EXCEPT ![neighbor] = newDegree], visited,
                 IF newDegree = 0 /\ neighbor \notin visited
                 THEN Append(nextNodes, neighbor) ELSE nextNodes)

\* while (queue.length > 0): the identifiers pushed to result, in order
RECURSIVE TopoLoop(_, _, _, _, _, _)
TopoLoop(nodeMap, edges, queue, visited, inDegree, result) ==
    IF queue = <<>> THEN [result |-> result, visited |-> visited]
    ELSE LET current == Head(queue)
         IN  IF current \in visited
             THEN TopoLoop(nodeMap, edges, Tail(queue), visited, inDegree, result)
             ELSE LET r == TopoNeighbors(TopoAdjacency(edges, 1, current), 1, inDegree,
                                         visited \cup {current}, <<>>)
                  IN  TopoLoop(nodeMap, edges,
                               Tail(queue) \o SortByY(r.nextNodes, nodeMap),
                               visited \cup {current}, r.inDegree,
                               Append(result, current))

\* a variant that appends the nodes never removed in reverse map order
RECURSIVE TopoRestReversed(_, _, _)
TopoRestReversed(nodeMap, i, visited) ==
    IF i > Len(nodeMap) THEN <<>>
    ELSE IF nodeMap[i].id \notin visited
         THEN TopoRestReversed(nodeMap, i + 1, visited) \o <<nodeMap[i].id>>
         ELSE TopoRestReversed(nodeMap, i + 1, visited)

\* the nodes never removed through the queue, in the map's order
RECURSIVE TopoRest(_, _, _)
TopoRest(nodeMap, i, visited) ==
    IF i > Len(nodeMap) THEN <<>>
    ELSE IF nodeMap[i].id \notin visited
         THEN <<nodeMap[i].id>> \o TopoRest(nodeMap, i + 1, visited)
         ELSE TopoRest(nodeMap, i + 1, visited)

\* the initial queue: the in-degree-zero identifiers in map order, sorted by y
RECURSIVE TopoZero(_, _, _)
TopoZero(nodeMap, i, inDegree) ==
    IF i > Len(nodeMap) THEN <<>>
    ELSE IF inDegree[nodeMap[i].id] = 0
         THEN <<nodeMap[i].id>> \o TopoZero(nodeMap, i + 1, inDegree)
         ELSE TopoZero(nodeMap, i + 1, inDegree)

\* the identifiers of the returned nodes, in order
TopoOrder(nodeMap, edges) ==
    LET inDegree == TopoInDegree(nodeMap, edges)
        queue == SortByY(TopoZero(nodeMap, 1, inDegree), nodeMap)
        r == TopoLoop(nodeMap, edges, queue, {}, inDegree, <<>>)
    IN  r.result \o TopoRest(nodeMap, 1, r.visited)

topologicalSort(nodeMap, edges) ==
    LET order == TopoOrder(nodeMap, edges)
    IN  [i \in DOMAIN order |-> MapGet(nodeMap, order[i])]

\* nodeIndex.get(id) || 0
NodeIndex(nodes, id) ==
    IF \E i \in DOMAIN nodes : nodes[i].id = id
    THEN (CHOOSE i \in DOMAIN nodes : nodes[i].id = id) - 1
    ELSE 0

\* a variant of the comparator that looks at the source alone
EdgeAfterBySource(a, b, nodes) ==
    NodeIndex(nodes, a.from) > NodeIndex(nodes, b.from)

\* the comparator of sortEdgesByNodeOrder: a sorts after b
EdgeAfter(a, b, nodes) ==
    LET aFromIdx == NodeIndex(nodes, a.from)
        bFromIdx == NodeIndex(nodes, b.from)
    IN  IF aFromIdx # bFromIdx THEN aFromIdx > bFromIdx
        ELSE NodeIndex(nodes, a.to) > NodeIndex(nodes, b.to)

RECURSIVE InsertEdge(_, _, _)
InsertEdge(sorted, e, nodes) ==
    IF sorted = <<>> THEN <<e>>
    ELSE IF ~EdgeAfter(sorted[Len(sorted)], e, nodes)
         THEN Append(sorted, e)
         ELSE Append(InsertEdge(SubSeq(sorted, 1, Len(sorted) - 1), e, nodes),
                     sorted[Len(sorted)])

\* [...edges].sort(comparator), stable
RECURSIVE sortEdgesByNodeOrder(_, _)
sortEdgesByNodeOrder(edges, nodes) ==
    IF edges = <<>> THEN <<>>
    ELSE InsertEdge(sortEdgesByNodeOrder(SubSeq(edges, 1, Len(edges) - 1), nodes),
                    edges[Len(edges)], nodes)

parseFlowchart(d) ==
    LET nodeMap == FlowNodeMap(d.svg, 1, <<>>)
        edges == FlowEdges(d.lines, 1, nodeMap)
        nodes == topologicalSort(nodeMap, edges)
    IN  [nodes |-> nodes, edges |-> sortEdgesByNodeOrder(edges, nodes)]

(***************************************************************************)
(* Rendering: the reveal slots, the opacity of a slot and the progress     *)
(* counter, as the component computes them on every frame.                 *)
(***************************************************************************)
DefaultFramesPerElement == 20

\* a variant without the upper clamp Math.min(.., 1)
getOpacityUnclamped(index, fr, fpe) ==
    LET startFrame == index * fpe
    IN  IF fr < startFrame THEN Num(0)
        ELSE JsDiv(Num(fr - startFrame), JsMul(Num(fpe), Rat(1, 2)))

\* a variant whose ramp lasts a whole step instead of half of one
getOpacityFullStep(index, fr, fpe) ==
    LET startFrame == index * fpe
    IN  IF fr < startFrame THEN Num(0)
        ELSE JsMin(JsDiv(Num(fr - startFrame), Num(fpe)), Num(1))

getOpacity(index, fr, fpe) ==
    LET startFrame == index * fpe
    IN  IF fr < startFrame THEN Num(0)
        ELSE JsMin(JsDiv(Num(fr - startFrame), JsMul(Num(fpe), Rat(1, 2))), Num(1))

\* a variant that pushes the edge of a round before its node
RECURSIVE FlowSequenceFromEdgeFirst(_, _, _)
FlowSequenceFromEdgeFirst(i, nNodes, nEdges) ==
    IF i >= nNodes /\ i >= nEdges THEN <<>>
    ELSE (IF i < nEdges THEN <<[type |-> "edge", index |-> i]>> ELSE <<>>)
         \o (IF i < nNodes THEN <<[type |-> "node", index |-> i]>> ELSE <<>>)
         \o FlowSequenceFromEdgeFirst(i + 1, nNodes, nEdges)

\* for (i < maxLen) { push node i; push edge i }
RECURSIVE FlowSequenceFrom(_, _, _)
FlowSequenceFrom(i, nNodes, nEdges) ==
    IF i >= nNodes /\ i >= nEdges THEN <<>>
    ELSE (IF i < nNodes THEN <<[type |-> "node", index |-> i]>> ELSE <<>>)
         \o (IF i < nEdges THEN <<[type |-> "edge", index |-> i]>> ELSE <<>>)
         \o FlowSequenceFrom(i + 1, nNodes, nEdges)

FlowSequence(data) == FlowSequenceFrom(0, Len(data.nodes), Len(data.edges))

\* sequence.findIndex(s => s.type === type && s.index === index)
FindIndex(sequence, type, index) ==
    IF \E i \in DOMAIN sequence : sequence[i].type = type /\ sequence[i].index = index
    THEN (CHOOSE i \in DOMAIN sequence :
              sequence[i].type = type /\ sequence[i].index = index) - 1
    ELSE -1

\* mindmapData.nodes.findIndex(n => n.id === id)
getNodeIndex(data, id) ==
    IF \E i \in DOMAIN data.nodes : data.nodes[i].id = id
    THEN (CHOOSE i \in DOMAIN data.nodes : data.nodes[i].id = id) - 1
    ELSE -1

Max(a, b) == IF a >= b THEN a ELSE b

\* The elements a dialect draws, each with the slot index handed to getOpacity:
\* a sequence of [kind, index, slot].
ElementSlots(type, data) ==
    CASE type = "flowchart" ->
           LET sequence == FlowSequence(data)
           IN  [i \in 1..Len(data.edges) |->
                   [kind |-> "edge", index |-> i - 1,
                    slot |-> FindIndex(sequence, "edge", i - 1)]]
               \o [i \in 1..Len(data.nodes) |->
                   [kind |-> "node", index |-> i - 1,
                    slot |-> FindIndex(sequence, "node", i - 1)]]
      [] type = "pie" ->
           <<[kind |-> "title", index |-> 0, slot |-> 0]>>
           \o [i \in 1..Len(data.segments) |->
               [kind |-> "segment", index |-> i - 1, slot |-> (i - 1) + 1]]
      [] type = "sequence" ->
           [i \in 1..Len(data.actors) |->
               [kind |-> "actor", index |-> i - 1, slot |-> i - 1]]
           \o [i \in 1..Len(data.messages) |->
               [kind |-> "message", index |-> i - 1,
                slot |-> Len(data.actors) + (i - 1)]]
      [] type = "state" ->
           [i \in 1..Len(data.transitions) |->
               [kind |-> "transition", index |-> i - 1,
                slot |-> Len(data.nodes) + (i - 1)]]
           \o [i \in 1..Len(data.nodes) |->
               [kind |-> "node", index |-> i - 1, slot |-> i - 1]]
      [] type = "mindmap" ->
           [i \in 1..Len(data.connections) |->
               [kind |-> "connection", index |-> i - 1,
                slot |-> Max(getNodeIndex(data, data.connections[i].from),
                             getNodeIndex(data, data.connections[i].to))]]
           \o [i \in 1..Len(data.nodes) |->
               [kind |-> "node", index |-> i - 1, slot |-> i - 1]]

\* the M of "N / M elements"
TotalElements(type, data) ==
    CASE type = "flowchart" -> Len(FlowSequence(data))
      [] type = "pie" -> Len(data.segments) + 1
      [] type = "sequence" -> Len(data.actors) + Len(data.messages)
      [] type = "state" -> Len(data.nodes) + Len(data.transitions)
      [] type = "mindmap" -> Len(data.nodes) + Len(data.connections)

\* the N of "N / M elements": the indices i of the counted list with
\* frame >= i * framesPerElement
VisibleCount(type, data, fr, fpe) ==
    LET counted == IF type = "pie" THEN Len(data.segments)
                   ELSE TotalElements(type, data)
    IN  Cardinality({i \in 0..(counted - 1) : fr >= i * fpe})

(***************************************************************************)
(* The component.                                                          *)
(***************************************************************************)
Dialects == {"flowchart", "pie", "sequence", "state", "mindmap"}

\* the state variable of a dialect
DataOf(type) ==
    CASE type = "flowchart" -> flowData
      [] type = "pie" -> pieData
      [] type = "sequence" -> seqData
      [] type = "state" -> stateData
      [] type = "mindmap" -> mindmapData
      [] OTHER -> Null

\* the dialect parser parseDiagram dispatches to
ParseOf(type, d) ==
    CASE type = "flowchart" -> parseFlowchart(d)
      [] type = "pie" -> parsePieChart(d)
      [] type = "sequence" -> parseSequence(d)
      [] type = "state" -> parseStateDiagram(d)
      [] type = "mindmap" -> parseMindmap(d)

diagramType == detectDiagramType(diagram)

\* which branch of the component's return is taken
View == IF diagramType \in Dialects /\ DataOf(diagramType) # Null
        THEN diagramType ELSE "unsupported"

\* the useEffect body: parseDiagram() is called and awaits mermaid.render
StartParse(t) == Append([i \in DOMAIN inflight |-> [inflight[i] EXCEPT !.cur = FALSE]],
                        [text |-> t, cur |-> TRUE])

Remove(s, i) == SubSeq(s, 1, i - 1) \o SubSeq(s, i + 1, Len(s))

Settle(i, how) ==
    /\ inflight' = Remove(inflight, i)
    /\ outcome' = IF inflight[i].cur THEN how ELSE outcome

\* the body of parseDiagram after a render call that returned an <svg> element:
\* the parser of the dialect the call was started for stores its structure
Store(t) ==
    LET type == detectDiagramType(t)
    IN  /\ flowData' = IF type = "flowchart" THEN parseFlowchart(t) ELSE flowData
        /\ pieData' = IF type = "pie" THEN parsePieChart(t) ELSE pieData
        /\ seqData' = IF type = "sequence" THEN parseSequence(t) ELSE seqData
        /\ stateData' = IF type = "state" THEN parseStateDiagram(t) ELSE stateData
        /\ mindmapData' = IF type = "mindmap" THEN parseMindmap(t) ELSE mindmapData

\* the diagram prop changes: the effect runs again for the new text
SetDiagram(t) ==
    /\ t # diagram
    /\ Len(inflight) < MaxInflight
    /\ diagram' = t
    /\ inflight' = StartParse(t)
    /\ outcome' = "pending"
    /\ UNCHANGED <<framesPerElement, frame, flowData, pieData, seqData, stateData,
                   mindmapData, staleApplied>>

\* mermaid.render resolves with an SVG document
RenderResolve(i) ==
    /\ i \in DOMAIN inflight
    /\ Settle(i, "ok")
    /\ Store(inflight[i].text)
    /\ staleApplied' = (staleApplied \/ (inflight[i].text # diagram
                            /\ detectDiagramType(inflight[i].text) = diagramType
                            /\ diagramType \in Dialects))
    /\ UNCHANGED <<diagram, framesPerElement, frame>>

\* mermaid.render resolves with text holding no <svg> element: if (!svgEl) return
RenderNoSvg(i) ==
    /\ i \in DOMAIN inflight
    /\ Settle(i, "nosvg")
    /\ UNCHANGED <<diagram, framesPerElement, frame, flowData, pieData, seqData,
                   stateData, mindmapData, staleApplied>>

\* mermaid.render rejects: catch (error) { console.error(...) }
RenderReject(i) ==
    /\ i \in DOMAIN inflight
    /\ Settle(i, "rejected")
    /\ UNCHANGED <<diagram, framesPerElement, frame, flowData, pieData, seqData,
                   stateData, mindmapData, staleApplied>>

\* the player moves to the next frame
AdvanceFrame ==
    /\ frame < MaxFrame
    /\ frame' = frame + 1
    /\ UNCHANGED <<diagram, framesPerElement, inflight, flowData, pieData, seqData,
                   stateData, mindmapData, outcome, staleApplied>>

(***************************************************************************)
(* Diagram texts.                                                          *)
(***************************************************************************)
HeadFlowchart == <<"f","l","o","w","c","h","a","r","t"," ","T","D">>
HeadGraph == <<"g","r","a","p","h"," ","L","R">>
HeadSequence == <<"s","e","q","u","e","n","c","e","D","i","a","g","r","a","m">>
HeadPie == <<"p","i","e">>
HeadState == <<"s","t","a","t","e","D","i","a","g","r","a","m","-","v","2">>
HeadMindmap == <<"m","i","n","d","m","a","p">>
HeadClass == <<"c","l","a","s","s","D","i","a","g","r","a","m">>

Text(head, title, lines, svg) ==
    [head |-> head, title |-> title, lines |-> lines, svg |-> svg]

SeqsUpTo(S, n) == UNION {[1..k -> S] : k \in 0..n}

Other == [k |-> "other"]
PieEntry(label, value) == [k |-> "entry", label |-> label, value |-> value]
Participant(id, as) == [k |-> "participant", id |-> id, as |-> as]
Message(from, to, dashed) ==
    [k |-> "message", from |-> from, to |-> to, dashed |-> dashed, text |-> "m"]
Trans(from, to, label) == [k |-> "trans", from |-> from, to |-> to, label |-> label]
MindNode(indent, label, rootForm) ==
    [k |-> "node", indent |-> indent, label |-> label, rootForm |-> rootForm]
Chain(refs, arrows) == [k |-> "chain", refs |-> refs, arrows |-> arrows]
SvgNode(id, x, y) ==
    [id |-> id, label |-> id, x |-> x, y |-> y, width |-> 100, height |-> 40,
     shape |-> "rect"]

\* the texts the component is switched between
FlowAB == Text(HeadFlowchart, "", <<Chain(<<"A", "B">>, <<"-->">>)>>,
               <<SvgNode("A", 0, 0), SvgNode("B", 0, 100)>>)
FlowBCD == Text(HeadGraph, "", <<Chain(<<"B", "C", "D">>, <<"-->", "-->">>)>>,
                <<SvgNode("B", 0, 0), SvgNode("C", 100, 0), SvgNode("D", 200, 0)>>)
PieTest == Text(HeadPie, "Test", <<PieEntry("A", 60), PieEntry("B", 40)>>, <<>>)
SeqAB == Text(HeadSequence, "",
              <<Participant("A", ""), Participant("B", "Bob"), Message("A", "B", FALSE)>>,
              <<>>)
StateIdleDone == Text(HeadState, "",
                      <<Trans(Star, "Idle", ""), Trans("Idle", "Done", ""),
                        Trans("Done", Star, "")>>, <<>>)
MindSample == Text(HeadMindmap, "",
                   <<MindNode(4, "AI", TRUE), MindNode(8, "Frontend", FALSE),
                     MindNode(12, "React", FALSE), MindNode(8, "Backend", FALSE)>>, <<>>)
ClassSample == Text(HeadClass, "", <<Other>>, <<>>)

SampleTexts == {FlowAB, FlowBCD, PieTest, SeqAB, StateIdleDone, MindSample, ClassSample}

\* bounded families of texts, one per dialect
PieLines == {PieEntry(l, v) : l \in {"A", "B"}, v \in 0..MaxPieValue} \cup {Other}
PieTexts == {Text(HeadPie, t, ls, <<>>) :
                t \in {"", "Test"}, ls \in SeqsUpTo(PieLines, MaxPieLines)}

SeqLines == {Participant("A", ""), Participant("B", "Bob"),
             Message("A", "B", FALSE), Message("B", "A", TRUE), Message("A", "A", FALSE),
             Message("A", "C", FALSE), Message("C", "B", TRUE), Other}
SeqTexts == {Text(HeadSequence, "", ls, <<>>) : ls \in SeqsUpTo(SeqLines, MaxSeqLines)}

StateNames == {Star, "A", "B"}
StateLines == {Trans(f, t, "") : f \in StateNames, t \in StateNames}
                  \cup {Trans("A", Star, "done"), Trans("A", "B", "go")}
StateTexts == {Text(HeadState, "", ls, <<>>) : ls \in SeqsUpTo(StateLines, MaxStateLines)}

\* the sample state diagram followed by transitions among states that nothing
\* on level 0 reaches
StateCycleLines == {Trans("C", "C", ""), Trans("C", "D", ""), Trans("D", "C", ""),
                    Trans("D", "Done", "")}
StateCycleTexts == {Text(HeadState, "", StateIdleDone.lines \o ls, <<>>) :
                       ls \in SeqsUpTo(StateCycleLines, MaxCycleLines)}

MindLines == {MindNode(0, "Root", TRUE), MindNode(4, "Root", TRUE),
              MindNode(0, "n", FALSE), MindNode(4, "n", FALSE),
              MindNode(8, "n", FALSE), MindNode(12, "n", FALSE), [k |-> "blank"]}
MindTexts == {Text(HeadMindmap, "", ls, <<>>) : ls \in SeqsUpTo(MindLines, MaxMindLines)}

FlowNames == <<"A", "B", "C">>
YValues == {0, 100}
FlowSvgs == UNION {{[i \in 1..n |-> SvgNode(FlowNames[i], 0, ys[i])] :
                        ys \in [1..n -> YValues]} : n \in 0..Len(FlowNames)}
FlowLines == {Chain(<<a, b>>, <<"-->">>) : a \in SeqToSet(FlowNames), b \in SeqToSet(FlowNames)}
                 \cup {Chain(<<"A", "B", "C">>, <<"-->", "-->">>),
                       Chain(<<"A", "B">>, <<"-.->">>),
                       Chain(<<"A", "B", "C">>, <<"-.->", "-->">>),
                       Chain(<<"A", "B">>, <<"---">>),
                       Chain(<<"B", "C">>, <<"==>">>)}
FlowTexts == {Text(HeadFlowchart, "", ls, svg) :
                 ls \in SeqsUpTo(FlowLines, MaxFlowLines), svg \in FlowSvgs}

\* flowcharts of one edge whose two nodes are placed anywhere on a grid
GridValues == {0, 100, 200}
FlowGridSvgs == {<<SvgNode("A", xa, ya), SvgNode("B", xb, yb)>> :
                    xa \in GridValues, ya \in GridValues,
                    xb \in GridValues, yb \in GridValues}
FlowGridTexts == {Text(HeadFlowchart, "", <<l>>, svg) :
                     l \in {Chain(<<"A", "B">>, <<"-->">>), Chain(<<"A", "A">>, <<"-->">>)},
                     svg \in FlowGridSvgs}

\* the families of texts a parse is checked on
TextFamilies == <<FlowTexts, PieTexts, SeqTexts, StateTexts, MindTexts, SampleTexts,
                  FlowGridTexts, StateCycleTexts>>

\* the values the framesPerElement prop is given (the schema accepts any number)
FpeValues == {-2, 0, 1, 2, 4}

(***************************************************************************)
(* Specifications.                                                         *)
(***************************************************************************)
\* the component right after it is mounted with text t: the first effect has
\* called parseDiagram, which awaits the renderer
Mounted(t, fpe) ==
    /\ diagram = t
    /\ framesPerElement = fpe
    /\ frame = 0
    /\ inflight = <<[text |-> t, cur |-> TRUE]>>
    /\ flowData = Null
    /\ pieData = Null
    /\ seqData = Null
    /\ stateData = Null
    /\ mindmapData = Null
    /\ outcome = "pending"
    /\ staleApplied = FALSE

\* the component over its life: text changes, render completions, frames
Init == \E t \in SampleTexts : Mounted(t, DefaultFramesPerElement)

Next ==
    \/ \E t \in SampleTexts : SetDiagram(t)
    \/ \E i \in 1..MaxInflight : RenderResolve(i)
    \/ \E i \in 1..MaxInflight : RenderNoSvg(i)
    \/ \E i \in 1..MaxInflight : RenderReject(i)
    \/ AdvanceFrame

Spec == Init /\ [][Next]_vars

\* one text played frame by frame, for each value of the framesPerElement prop
InitFrames == \E t \in SampleTexts : \E fpe \in FpeValues : Mounted(t, fpe)

NextFrames ==
    \/ \E i \in 1..MaxInflight : RenderResolve(i)
    \/ \E i \in 1..MaxInflight : RenderNoSvg(i)
    \/ \E i \in 1..MaxInflight : RenderReject(i)
    \/ AdvanceFrame

SpecFrames == InitFrames /\ [][NextFrames]_vars

\* the same, played: the player renders frame after frame up to the last one
SpecPlay == InitFrames /\ [][NextFrames]_vars /\ WF_vars(AdvanceFrame)

\* one parse of every text of the bounded families, framesPerElement left at
\* its default
InitParse ==
    \E f \in DOMAIN TextFamilies :
        \E t \in TextFamilies[f] : Mounted(t, DefaultFramesPerElement)

NextParse ==
    \/ \E i \in 1..MaxInflight : RenderResolve(i)
    \/ \E i \in 1..MaxInflight : RenderNoSvg(i)
    \/ \E i \in 1..MaxInflight : RenderReject(i)

SpecParse == InitParse /\ [][NextParse]_vars

(***************************************************************************)
(* Properties.                                                             *)
(***************************************************************************)
\* the elements drawn in the current state, with their slots
Shown == LET view == View IN ElementSlots(view, DataOf(view))

Slots(els) == {els[i].slot : i \in DOMAIN els}

\* C1: the completion of a render call started for a superseded text is
\* discarded: no such completion ever stores the structure that is displayed,
\* and once no call is in flight and the call for the current text has
\* resolved, the structure stored for the current dialect is the one derived
\* from the current text.
C1_StaleCompletionDiscarded ==
    /\ ~staleApplied
    /\ LET type == diagramType
       IN  (inflight = <<>> /\ outcome = "ok" /\ type \in Dialects)
               => DataOf(type) = ParseOf(type, diagram)

\* C2: when the render call for the current flowchart text fails, the
\* flowchart structure in effect has no nodes and no edges, whatever was
\* parsed before.
C2_RenderFailureEmptiesFlowchart ==
    (outcome = "rejected" /\ diagramType = "flowchart")
        => (flowData = Null \/ (flowData.nodes = <<>> /\ flowData.edges = <<>>))

\* C3: for every displayed structure of every dialect, the slot indices of
\* its elements are exactly 0..N-1, N the reported total, and no two elements
\* share a slot.
C3_SlotsAreARange ==
    LET view == View
    IN  view # "unsupported" =>
            LET els == ElementSlots(view, DataOf(view))
            IN  /\ Slots(els) = 0..(TotalElements(view, DataOf(view)) - 1)
                /\ \A i, j \in DOMAIN els : i # j => els[i].slot # els[j].slot

\* C5: at every frame the reported visible count is the number of elements
\* whose slot has started (slot * framesPerElement <= frame).
C5_VisibleCountCountsStartedSlots ==
    LET view == View
    IN  view # "unsupported" =>
            LET els == ElementSlots(view, DataOf(view))
            IN  VisibleCount(view, DataOf(view), frame, framesPerElement)
                    = Cardinality({i \in DOMAIN els :
                                      frame >= els[i].slot * framesPerElement})

\* C6: the opacity of every element, at every frame and for every accepted
\* framesPerElement, is a defined number in [0, 1].
C6_OpacityInUnitInterval ==
    LET view == View
    IN  view # "unsupported" =>
            LET els == ElementSlots(view, DataOf(view))
            IN  \A i \in DOMAIN els :
                    LET o == getOpacity(els[i].slot, frame, framesPerElement)
                    IN  IsFinite(o) /\ JsLe(Num(0), o) /\ JsLe(o, Num(1))

\* the identifiers one or more edges away from the set S
Successors(S, E) == {p[2] : p \in {q \in E : q[1] \in S}}

RECURSIVE Closure(_, _)
Closure(S, E) ==
    LET T == S \cup Successors(S, E)
    IN  IF T = S THEN S ELSE Closure(T, E)

EdgePairs(edges) == {<<edges[i].from, edges[i].to>> : i \in DOMAIN edges}

\* no edge lies on a cycle (a self-loop is a cycle)
Acyclic(edges) ==
    LET E == EdgePairs(edges)
    IN  \A p \in E : p[1] \notin Closure({p[2]}, E)

\* the position of a node in the flowchart's node order
Pos(nodes, id) == CHOOSE i \in DOMAIN nodes : nodes[i].id = id

\* C4: when the accepted edges of a flowchart form no cycle, the node order
\* is a topological order: every edge's source comes before its destination.
C4_TopologicalOrderValid ==
    (flowData # Null /\ Acyclic(flowData.edges)) =>
        \A i \in DOMAIN flowData.edges :
            Pos(flowData.nodes, flowData.edges[i].from)
                < Pos(flowData.nodes, flowData.edges[i].to)

\* an acyclic flowchart with two or more edges, one of them running against
\* both the order of the nodes in the rendered document and their height
C4_Witness ==
    /\ flowData # Null
    /\ Len(flowData.edges) >= 2
    /\ Acyclic(flowData.edges)
    /\ \E i \in DOMAIN flowData.edges :
           LET e == flowData.edges[i]
           IN  /\ Pos(diagram.svg, e.from) > Pos(diagram.svg, e.to)
               /\ MapGet(diagram.svg, e.from).y > MapGet(diagram.svg, e.to).y

IsEntry(line) == line.k = "entry"

\* the "label" : value lines of the current text, in text order
Entries == SelectSeq(diagram.lines, IsEntry)

RECURSIVE SumValues(_)
SumValues(es) == IF es = <<>> THEN 0 ELSE Head(es).value + SumValues(Tail(es))

RECURSIVE SumSpans(_)
SumSpans(segs) ==
    IF segs = <<>> THEN Num(0)
    ELSE JsAdd(JsSub(Head(segs).endAngle, Head(segs).startAngle), SumSpans(Tail(segs)))

\* C7: when the values of the pie entries sum to zero, no segment is emitted,
\* the title is still present, and no emitted segment carries an angle that
\* is not a number.
C7_ZeroTotalEmitsNoSegments ==
    (pieData # Null /\ SumValues(Entries) = 0) =>
        /\ pieData.segments = <<>>
        /\ pieData.title = (IF diagram.title # "" THEN diagram.title ELSE "Pie Chart")
        /\ \A i \in DOMAIN pieData.segments :
               IsFinite(pieData.segments[i].startAngle)
                   /\ IsFinite(pieData.segments[i].endAngle)

\* C8: for a pie whose entries sum to V > 0 the segments are the entries in
\* declaration order, the first starts at the top (-pi/2), each starts where
\* the previous one ends, each spans value/V of the circle, and the spans add
\* up to the full circle (2 pi).
C8_PieSegmentsPartitionCircle ==
    (pieData # Null /\ SumValues(Entries) > 0) =>
        LET segs == pieData.segments
            es == Entries
            V == SumValues(es)
        IN  /\ Len(segs) = Len(es)
            /\ \A i \in DOMAIN segs :
                   /\ segs[i].label = es[i].label
                   /\ segs[i].value = es[i].value
                   /\ JsSub(segs[i].endAngle, segs[i].startAngle) = Rat(2 * es[i].value, V)
                   /\ i > 1 => segs[i].startAngle = segs[i - 1].endAngle
            /\ segs[1].startAngle = Rat(-1, 2)
            /\ SumSpans(segs) = Num(2)

\* a pie of two segments declared with the larger value last
C8_Witness ==
    /\ pieData # Null
    /\ Len(pieData.segments) = 2
    /\ 0 < pieData.segments[1].value
    /\ pieData.segments[1].value < pieData.segments[2].value

Ids(nodes) == {nodes[i].id : i \in DOMAIN nodes}

\* the message lines of the current text whose two ends are declared participants
DeclaredIds == {diagram.lines[i].id : i \in {j \in DOMAIN diagram.lines :
                                                diagram.lines[j].k = "participant"}}
KnownMessages == {i \in DOMAIN diagram.lines :
                     /\ diagram.lines[i].k = "message"
                     /\ diagram.lines[i].from \in DeclaredIds
                     /\ diagram.lines[i].to \in DeclaredIds}

\* C9: every emitted edge, message, transition and connection refers to
\* nodes, actors or states of the same structure; what refers to an unknown
\* end is left out, and the other elements are still produced.
C9_ReferencesResolve ==
    /\ flowData # Null =>
           /\ \A i \in DOMAIN flowData.edges :
                  {flowData.edges[i].from, flowData.edges[i].to} \subseteq Ids(flowData.nodes)
           /\ Ids(flowData.nodes) = Ids(diagram.svg)
           /\ \A i \in DOMAIN diagram.lines :
                  LET l == diagram.lines[i]
                  IN  (Len(l.refs) = 2 /\ l.arrows[1] = "-->"
                          /\ {l.refs[1], l.refs[2]} \subseteq Ids(diagram.svg))
                      => <<l.refs[1], l.refs[2]>> \in EdgePairs(flowData.edges)
    /\ seqData # Null =>
           /\ \A i \in DOMAIN seqData.messages :
                  {seqData.messages[i].from, seqData.messages[i].to}
                      \subseteq 0..(Len(seqData.actors) - 1)
           /\ Len(seqData.messages) = Cardinality(KnownMessages)
    /\ stateData # Null =>
           \A i \in DOMAIN stateData.transitions :
               {stateData.transitions[i].from, stateData.transitions[i].to}
                   \subseteq Ids(stateData.nodes)
    /\ mindmapData # Null =>
           /\ \A i \in DOMAIN mindmapData.connections :
                  {mindmapData.connections[i].from, mindmapData.connections[i].to}
                      \subseteq Ids(mindmapData.nodes)
           /\ Len(mindmapData.nodes)
                  = Cardinality({i \in DOMAIN diagram.lines : diagram.lines[i].k = "node"})

\* a sequence diagram with a message to or from an undeclared participant
\* left out and another message kept
C9_Witness ==
    /\ seqData # Null
    /\ Len(seqData.messages) >= 1
    /\ \E i \in DOMAIN diagram.lines :
           /\ diagram.lines[i].k = "message"
           /\ i \notin KnownMessages

\* C10: for pie, sequence, state and mindmap text the structure is produced
\* whatever the render call does: also when it fails and when it returns no
\* <svg> element.
C10_OtherDialectsNeedNoRender ==
    LET type == diagramType
    IN  (type \in Dialects \ {"flowchart"} /\ outcome \in {"rejected", "nosvg"})
            => DataOf(type) = ParseOf(type, diagram)

\* every line with a label produces one node: the node of line i is the
\* NodeOfLine(lines, i)-th
NodeOfLine(lines, i) == Cardinality({j \in 1..i : lines[j].k = "node"})

\* C11: the node produced from a root((label)) line has depth level 0 and is
\* flagged isRoot, whatever the indentation of the line.
C11_RootLineIsDepthZero ==
    mindmapData # Null =>
        \A i \in DOMAIN diagram.lines :
            (diagram.lines[i].k = "node" /\ diagram.lines[i].rootForm) =>
                LET n == mindmapData.nodes[NodeOfLine(diagram.lines, i)]
                IN  n.level = 0 /\ n.isRoot

\* the states no transition enters, and the start marker
StateSources(data) ==
    {n \in Ids(data.nodes) :
        n = StartId \/ \A i \in DOMAIN data.transitions : data.transitions[i].to # n}

\* the length of the shortest path from the set S to n along E, counted from
\* k; -1 when there is none
RECURSIVE DistFrom(_, _, _, _)
DistFrom(S, E, n, k) ==
    IF n \in S THEN k
    ELSE LET T == S \cup Successors(S, E)
         IN  IF T = S THEN -1 ELSE DistFrom(T, E, n, k + 1)

ExpectedLevel(data, n) ==
    LET dist == DistFrom(StateSources(data), EdgePairs(data.transitions), n, 0)
    IN  IF dist = -1 THEN DefaultLevel ELSE dist

\* the level a state node was laid out on: x = startX + level * xSpacing
LevelOf(node) == (node.x - StartX) \div XSpacing

\* C12: a state without incoming transition and the start marker are on level
\* 0, a state reachable from them is on the level of its shortest path from
\* them, any other state is on the fallback level 3; the text [*] --> Idle,
\* Idle --> Done, Done --> [*] gives start, Idle, Done, end the levels 0, 1,
\* 2, 3 and three transitions.
C12_StateLevelsAreShortestPaths ==
    stateData # Null =>
        /\ \A i \in DOMAIN stateData.nodes :
               LET node == stateData.nodes[i]
               IN  node.x = StartX + XSpacing * ExpectedLevel(stateData, node.id)
        /\ diagram = StateIdleDone =>
               /\ [i \in DOMAIN stateData.nodes |->
                      <<stateData.nodes[i].id, LevelOf(stateData.nodes[i])>>]
                    = <<(<<StartId, 0>>), (<<"Idle", 1>>), (<<"Done", 2>>), (<<EndId, 3>>)>>
               /\ Len(stateData.transitions) = 3

\* a state entered both from a level-0 state and from a level-1 state: it is
\* on level 1, the length of the shorter path
C12_Witness ==
    /\ stateData # Null
    /\ \E i, j, k \in DOMAIN stateData.transitions :
           /\ stateData.transitions[i].to = stateData.transitions[j].to
           /\ stateData.transitions[i].from \in StateSources(stateData)
           /\ stateData.transitions[j].from = stateData.transitions[k].to
           /\ stateData.transitions[k].from \in StateSources(stateData)
           /\ stateData.transitions[j].from # stateData.transitions[j].to

Min(a, b) == IF a <= b THEN a ELSE b

\* the element of the flowchart revealed on slot s
FlowElementOn(s) ==
    LET els == ElementSlots("flowchart", flowData)
    IN  els[CHOOSE i \in DOMAIN els : els[i].slot = s]

\* C13: a flowchart of n nodes and m edges is revealed node 0, edge 0, node 1,
\* edge 1, ..., the exhausted list skipped: node i is on slot i + min(i, m)
\* and edge j on slot j + min(j + 1, n); the text A --> B with geometry for A
\* and B is revealed as node A, edge A->B, node B.
C13_FlowchartRevealInterleaves ==
    flowData # Null =>
        LET n == Len(flowData.nodes)
            m == Len(flowData.edges)
            els == ElementSlots("flowchart", flowData)
        IN  /\ \A i \in DOMAIN els :
                   els[i].slot = IF els[i].kind = "node"
                                 THEN els[i].index + Min(els[i].index, m)
                                 ELSE els[i].index + Min(els[i].index + 1, n)
            /\ diagram = FlowAB =>
                   /\ n = 2 /\ m = 1
                   /\ FlowElementOn(0) = [kind |-> "node", index |-> 0, slot |-> 0]
                   /\ flowData.nodes[1].id = "A"
                   /\ FlowElementOn(1) = [kind |-> "edge", index |-> 0, slot |-> 1]
                   /\ flowData.edges[1].from = "A" /\ flowData.edges[1].to = "B"
                   /\ FlowElementOn(2) = [kind |-> "node", index |-> 1, slot |-> 2]
                   /\ flowData.nodes[2].id = "B"

\* a flowchart of three nodes and one edge: the edge list is exhausted after
\* the first round
C13_Witness ==
    /\ flowData # Null
    /\ Len(flowData.nodes) = 3
    /\ Len(flowData.edges) = 1

\* a flowchart with more edges than nodes: the node list is exhausted first
C13_WitnessMoreEdges ==
    /\ flowData # Null
    /\ Len(flowData.nodes) >= 1
    /\ Len(flowData.edges) > Len(flowData.nodes)

\* the positions of the depth-0 nodes of the mindmap
MindRoots == {i \in DOMAIN mindmapData.nodes : mindmapData.nodes[i].level = 0}

\* the positions of the depth-1 children of the node on position r
MindBranches(r) ==
    {i \in DOMAIN mindmapData.nodes :
        /\ mindmapData.nodes[i].level = 1
        /\ mindmapData.nodes[i].parentId = mindmapData.nodes[r].id}

\* the depth-1 children of the root on position r are on the fixed radius, the
\* i-th of the k at i/k of a full turn from -pi/2, each with one connection,
\* which comes from the root
BranchesEvenlySpaced(r) ==
    LET branches == MindBranches(r)
        k == Cardinality(branches)
    IN  \A c \in branches :
            LET i == Cardinality({b \in branches : b < c})
                node == mindmapData.nodes[c]
            IN  /\ node.angle = JsSub(Rat(2 * i, k), Rat(1, 2))
                /\ node.radius = BranchRadius
                /\ Cardinality({j \in DOMAIN mindmapData.connections :
                                   mindmapData.connections[j].to = node.id}) = 1
                /\ \E j \in DOMAIN mindmapData.connections :
                       mindmapData.connections[j]
                           = [from |-> mindmapData.nodes[r].id, to |-> node.id]

Tags == Dialects \cup {"unknown"}

\* a render completion that reaches the dispatch of a call started for a text
\* of one of the five dialects: the parser of that dialect runs
ParserRuns ==
    \E i \in 1..MaxInflight :
        /\ RenderResolve(i)
        /\ detectDiagramType(inflight[i].text) \in Dialects

\* C15: detectDiagramType returns one of the six tags, unknown when no prefix
\* matches; while the current text classifies as unknown the component is in
\* the unsupported state, also after a supported diagram was displayed, and
\* no dialect parser runs.
C15_UnknownRunsNoParser ==
    /\ [](diagramType \in Tags)
    /\ [](diagramType = "unknown" => View = "unsupported")
    /\ [][diagramType = "unknown" => ~ParserRuns]_vars

\* the parts of C15 about the classification and the display alone
C15_UnknownShowsNoLayout ==
    /\ diagramType \in Tags
    /\ diagramType = "unknown" => View = "unsupported"

\* the line of the k-th message whose two ends are declared participants
KnownMessageLine(k) ==
    CHOOSE i \in KnownMessages : Cardinality({j \in KnownMessages : j < i}) = k - 1

\* the name an id is displayed under: the alias of its declaration when given
DisplayNames(id) ==
    {IF diagram.lines[i].as # "" THEN diagram.lines[i].as ELSE diagram.lines[i].id :
        i \in {j \in DOMAIN diagram.lines :
                  diagram.lines[j].k = "participant" /\ diagram.lines[j].id = id}}

\* C16: the emitted messages are the message lines between declared
\* participants in text order; the first is at the fixed offset and each next
\* one a fixed step below the previous, so a line that is left out takes no
\* step; the height is the last message's y plus a fixed margin (one step
\* plus the bottom margin).
C16_MessagesStepDown ==
    seqData # Null =>
        /\ Len(seqData.messages) = Cardinality(KnownMessages)
        /\ \A k \in DOMAIN seqData.messages :
               LET msg == seqData.messages[k]
                   line == diagram.lines[KnownMessageLine(k)]
               IN  /\ seqData.actors[msg.from + 1].name \in DisplayNames(line.from)
                   /\ seqData.actors[msg.to + 1].name \in DisplayNames(line.to)
                   /\ msg.type = (IF line.dashed THEN "dashed" ELSE "solid")
                   /\ msg.y = IF k = 1 THEN MessageY0
                              ELSE seqData.messages[k - 1].y + MessageDY
        /\ seqData.messages # <<>> =>
               seqData.height = seqData.messages[Len(seqData.messages)].y
                                    + MessageDY + HeightMargin

\* a message line with an undeclared end, left out, followed by an emitted
\* message
C16_Witness ==
    /\ seqData # Null
    /\ \E i \in DOMAIN diagram.lines, j \in KnownMessages :
           /\ diagram.lines[i].k = "message"
           /\ i \notin KnownMessages
           /\ i < j

\* the identifiers output before position p of the node order
OutputBefore(p) == {flowData.nodes[q].id : q \in 1..(p - 1)}

\* the nodes not output before position p whose remaining in-degree is zero:
\* the source of every edge into them has been output
Available(p) ==
    {n \in Ids(flowData.nodes) \ OutputBefore(p) :
        \A e \in EdgePairs(flowData.edges) : e[2] = n => e[1] \in OutputBefore(p)}

\* C17: at every step of the topological sort the node output next is, among
\* the nodes not yet output whose remaining in-degree is zero, one with the
\* smallest y.
C17_NextNodeIsTopmostAvailable ==
    flowData # Null =>
        \A p \in DOMAIN flowData.nodes :
            Available(p) # {} =>
                /\ flowData.nodes[p].id \in Available(p)
                /\ \A n \in Available(p) :
                       flowData.nodes[p].y <= MapGet(flowData.nodes, n).y

\* the edges handed to sortEdgesByNodeOrder: the accepted edges in text order
AcceptedEdges == FlowEdges(diagram.lines, 1, FlowNodeMap(diagram.svg, 1, <<>>))

\* how often the pair occurs in the edge list
Occurrences(edges, pair) ==
    Cardinality({i \in DOMAIN edges : <<edges[i].from, edges[i].to>> = pair})

\* edge a does not come after edge b by (rank of source, rank of destination)
RankLeq(a, b) ==
    LET af == Pos(flowData.nodes, a.from)
        bf == Pos(flowData.nodes, b.from)
    IN  af < bf \/ (af = bf /\ Pos(flowData.nodes, a.to) <= Pos(flowData.nodes, b.to))

Ramp(k, fr, s) ==
    IF fr < k * s THEN Num(0)
    ELSE IF 2 * (fr - k * s) <= s THEN Rat(2 * (fr - k * s), s)
    ELSE Num(1)

\* C19: for framesPerElement s > 0 the opacity of slot k is 0 before frame
\* k*s, (frame - k*s) / (s/2) from frame k*s to k*s + s/2 and 1 afterwards.
C19_OpacityRamp ==
    (framesPerElement > 0 /\ View # "unsupported") =>
        LET els == Shown
        IN  \A i \in DOMAIN els :
                getOpacity(els[i].slot, frame, framesPerElement)
                    = Ramp(els[i].slot, frame, framesPerElement)

\* a frame at which one element is half revealed, an earlier slot is fully
\* shown or a later slot has not started
C19_Witness ==
    /\ framesPerElement > 0
    /\ View # "unsupported"
    /\ LET els == Shown
       IN  /\ \E i \in DOMAIN els :
                  getOpacity(els[i].slot, frame, framesPerElement) = Rat(1, 2)
           /\ \E i \in DOMAIN els :
                  /\ frame < els[i].slot * framesPerElement
                  /\ getOpacity(els[i].slot, frame, framesPerElement) = Num(0)

\* the positions of the nodes before position c whose depth is smaller than
\* that of the node on position c
Shallower(c) ==
    {j \in 1..(c - 1) : mindmapData.nodes[j].level < mindmapData.nodes[c].level}

Greatest(S) == CHOOSE x \in S : \A y \in S : y <= x

\* the connections that end in the node
ConnectionsTo(id) ==
    {j \in DOMAIN mindmapData.connections : mindmapData.connections[j].to = id}

\* the ancestor stack after the first n lines of the current text
StackAfter(n) ==
    MindFold(SubSeq(diagram.lines, 1, n), 1, MindStart,
             MindBranchCount(diagram.lines)).levelStack

StackIncreases ==
    \A n \in 0..Len(diagram.lines) :
        LET stack == StackAfter(n)
        IN  \A i, j \in DOMAIN stack : i < j => stack[i].level < stack[j].level

\* C20: every node of depth >= 1 has as parent the most recent preceding node
\* of strictly smaller depth and exactly one connection, from that parent to
\* it; the ancestor stack holds strictly increasing depths after every line.
C20_ParentIsNearestShallower ==
    mindmapData # Null =>
        /\ \A c \in DOMAIN mindmapData.nodes :
               LET node == mindmapData.nodes[c]
               IN  node.level >= 1 =>
                       /\ Shallower(c) # {}
                       /\ node.parentId = mindmapData.nodes[Greatest(Shallower(c))].id
                       /\ Cardinality(ConnectionsTo(node.id)) = 1
                       /\ \A j \in ConnectionsTo(node.id) :
                              mindmapData.connections[j].from = node.parentId
        /\ StackIncreases

\* what holds of every node of depth >= 1: with a preceding node of smaller
\* depth it is as C20 says, without one it has no parent and no connection
C20_ParentWhenThereIsOne ==
    mindmapData # Null =>
        /\ \A c \in DOMAIN mindmapData.nodes :
               LET node == mindmapData.nodes[c]
               IN  node.level >= 1 =>
                       IF Shallower(c) = {}
                       THEN node.parentId = "" /\ ConnectionsTo(node.id) = {}
                       ELSE /\ node.parentId = mindmapData.nodes[Greatest(Shallower(c))].id
                            /\ Cardinality(ConnectionsTo(node.id)) = 1
                            /\ \A j \in ConnectionsTo(node.id) :
                                   mindmapData.connections[j].from = node.parentId
        /\ StackIncreases

\* ---- lanes of the sequence diagram ------------------------------------
\* the lines that declare a participant id for the first time, in text order
FirstDeclarations ==
    {i \in DOMAIN diagram.lines :
        /\ diagram.lines[i].k = "participant"
        /\ \A j \in 1..(i - 1) : ~(/\ diagram.lines[j].k = "participant"
                                   /\ diagram.lines[j].id = diagram.lines[i].id)}

\* the lane (0-based) an id gets from the order of first declarations
LaneOf(id) ==
    Cardinality({i \in FirstDeclarations :
                    \E j \in FirstDeclarations :
                        /\ diagram.lines[j].id = id
                        /\ i < j})

\* C21: each distinct participant id has exactly one lane, lanes follow the
\* order of first declarations and are evenly spaced from the first offset,
\* and a repeated declaration neither adds a lane nor moves the messages of
\* its id to another lane.
C21_OneLanePerParticipant ==
    (diagramType = "sequence" /\ seqData # Null) =>
        /\ Len(seqData.actors) = Cardinality(DeclaredIds)
        /\ \A k \in DOMAIN seqData.actors :
               seqData.actors[k].x = ActorX0 + ActorDX * (k - 1)
        /\ Len(seqData.messages) = Cardinality(KnownMessages)
        /\ \A k \in DOMAIN seqData.messages :
               /\ seqData.messages[k].from = LaneOf(diagram.lines[KnownMessageLine(k)].from)
               /\ seqData.messages[k].to = LaneOf(diagram.lines[KnownMessageLine(k)].to)

\* ---- edge routes --------------------------------------------------------
RatAbs(a) == IF a.n < 0 THEN JsNeg(a) ELSE a

\* point p lies on the rectangle of the node's width and height centred at
\* the node's (x, y)
OnBoundary(p, node) ==
    LET ax == RatAbs(JsSub(p.x, Num(node.x)))
        ay == RatAbs(JsSub(p.y, Num(node.y)))
        w2 == Rat(node.width, 2)
        h2 == Rat(node.height, 2)
    IN  \/ ax = w2 /\ JsLe(ay, h2)
        \/ ay = h2 /\ JsLe(ax, w2)

\* C22: every emitted edge has a route of 2 or 4 points that starts on the
\* boundary of the source node's box and ends on the boundary of the target
\* node's box; the route has 4 points exactly when the vertical displacement
\* is the larger one and the target is above the source.
C22_EdgeRouteJoinsBoxes ==
    (diagramType = "flowchart" /\ flowData # Null) =>
        \A k \in DOMAIN flowData.edges :
            LET e == flowData.edges[k]
                from == MapGet(flowData.nodes, e.from)
                to == MapGet(flowData.nodes, e.to)
                dx == to.x - from.x
                dy == to.y - from.y
            IN  /\ Len(e.points) \in {2, 4}
                /\ OnBoundary(e.points[1], from)
                /\ OnBoundary(e.points[Len(e.points)], to)
                /\ (Len(e.points) = 4) <=> (Abs(dy) > Abs(dx) /\ dy < 0)

\* an edge between two nodes displaced equally in x and y
C22_Witness ==
    /\ diagramType = "flowchart" /\ flowData # Null
    /\ \E k \in DOMAIN flowData.edges :
          LET from == MapGet(flowData.nodes, flowData.edges[k].from)
              to == MapGet(flowData.nodes, flowData.edges[k].to)
          IN  /\ from.id # to.id
              /\ to.x - from.x # 0
              /\ Abs(to.x - from.x) = Abs(to.y - from.y)
              /\ Len(flowData.edges[k].points) = 2

\* an edge routed around: the target is above the source and |dy| > |dx| > 0
C22_WitnessLoopBack ==
    /\ diagramType = "flowchart" /\ flowData # Null
    /\ \E k \in DOMAIN flowData.edges :
          LET from == MapGet(flowData.nodes, flowData.edges[k].from)
              to == MapGet(flowData.nodes, flowData.edges[k].to)
          IN  /\ to.x # from.x
              /\ Len(flowData.edges[k].points) = 4

\* a self-loop
C22_WitnessSelfLoop ==
    /\ diagramType = "flowchart" /\ flowData # Null
    /\ \E k \in DOMAIN flowData.edges :
          /\ flowData.edges[k].from = flowData.edges[k].to
          /\ Len(flowData.edges[k].points) = 2

\* ---- edges of a chain line ---------------------------------------------
\* the places <<l, i>> where reference i of line l is followed by an arrow
ChainSteps ==
    {s \in (DOMAIN diagram.lines) \X (1..3) :
        /\ diagram.lines[s[1]].k = "chain"
        /\ s[2] < Len(diagram.lines[s[1]].refs)}

StepPair(s) == <<diagram.lines[s[1]].refs[s[2]], diagram.lines[s[1]].refs[s[2] + 1]>>

RefsHaveGeometry ==
    \A l \in DOMAIN diagram.lines :
        diagram.lines[l].k = "chain" =>
            \A i \in DOMAIN diagram.lines[l].refs :
                MapHas(diagram.svg, diagram.lines[l].refs[i])

\* C23: when every referenced node has geometry, a line of N + 1 references
\* joined by N arrows of the kinds -->, -.->, ==> and --- yields exactly N
\* edges, reference i to reference i + 1.
C23_ChainYieldsEveryStep ==
    (diagramType = "flowchart" /\ flowData # Null /\ RefsHaveGeometry) =>
        /\ Len(flowData.edges) = Cardinality(ChainSteps)
        /\ \A pair \in {StepPair(s) : s \in ChainSteps} :
               Occurrences(flowData.edges, pair)
                   = Cardinality({s \in ChainSteps : StepPair(s) = pair})

\* ---- positions of the state layout -------------------------------------
\* the nodes that belong on level l
OnLevel(data, l) ==
    {i \in DOMAIN data.nodes : ExpectedLevel(data, data.nodes[i].id) = l}

\* n values spaced by ySpacing and symmetric about centerY
SymmetricYs(n) ==
    {JsAdd(Num(CenterY), JsMul(Rat(2 * k - (n - 1), 2), Num(YSpacing))) : k \in 0..(n - 1)}

\* C24: the states of one level share one x, which grows by the fixed step
\* per level; their y values are spaced by the fixed step and symmetric about
\* the baseline; no two states of a diagram have the same position, also when
\* a level holds both fallback states and states reached by traversal.
C24_StatePositionsDistinct ==
    (diagramType = "state" /\ stateData # Null) =>
        /\ \A i \in DOMAIN stateData.nodes :
               stateData.nodes[i].x
                   = StartX + XSpacing * ExpectedLevel(stateData, stateData.nodes[i].id)
        /\ \A l \in 0..(Len(stateData.nodes) + DefaultLevel) :
               LET group == OnLevel(stateData, l)
               IN  /\ {stateData.nodes[i].y : i \in group} = SymmetricYs(Cardinality(group))
                   /\ \A i, j \in group :
                          i # j => stateData.nodes[i].y # stateData.nodes[j].y
        /\ \A i, j \in DOMAIN stateData.nodes :
               i # j => <<stateData.nodes[i].x, stateData.nodes[i].y>>
                            # <<stateData.nodes[j].x, stateData.nodes[j].y>>

\* a state put on the fallback level shares it with a state that traversal
\* reached there
C24_Witness ==
    /\ diagramType = "state" /\ stateData # Null
    /\ \E i, j \in OnLevel(stateData, DefaultLevel) :
           /\ DistFrom(StateSources(stateData), EdgePairs(stateData.transitions),
                       stateData.nodes[i].id, 0) = -1
           /\ DistFrom(StateSources(stateData), EdgePairs(stateData.transitions),
                       stateData.nodes[j].id, 0) = DefaultLevel

\* ---- reveal order of edges and their source nodes ----------------------
\* the slot of the flowchart element of the given kind and 0-based index
FlowSlot(kind, index) ==
    LET els == ElementSlots("flowchart", flowData)
    IN  els[CHOOSE i \in DOMAIN els : els[i].kind = kind /\ els[i].index = index].slot

\* C25: in the flowchart reveal order the slot of every edge is greater than
\* the slot of the node the edge leaves.
C25_EdgeRevealedAfterSource ==
    (diagramType = "flowchart" /\ flowData # Null) =>
        \A k \in DOMAIN flowData.edges :
            FlowSlot("edge", k - 1)
                > FlowSlot("node", Pos(flowData.nodes, flowData.edges[k].from) - 1)

\* ---- completeness of the node order ------------------------------------
\* the nodes Kahn's algorithm can remove: those all of whose sources are
\* removed before them (least fixed point over the accepted edges)
RECURSIVE Removable(_, _, _)
Removable(R, ids, E) ==
    LET T == R \cup {n \in ids : \A e \in E : e[2] = n => e[1] \in R}
    IN  IF T = R THEN R ELSE Removable(T, ids, E)

\* the node map handed to topologicalSort
RenderedNodes == FlowNodeMap(diagram.svg, 1, <<>>)

AllOpaque ==
    LET els == Shown
    IN  \A i \in DOMAIN els : getOpacity(els[i].slot, frame, framesPerElement) = Num(1)

\* frame >= (N - 1) * s + s / 2, N the number of slots
PastLastRamp(fr) ==
    LET n == TotalElements(View, DataOf(View))
    IN  2 * fr >= 2 * (n - 1) * framesPerElement + framesPerElement

\* a step to the next frame of the same parsed diagram lowers no opacity and
\* keeps an opacity of 1
OpacityKept ==
    (/\ framesPerElement > 0
     /\ View # "unsupported"
     /\ frame' = frame + 1
     /\ UNCHANGED <<diagram, framesPerElement, flowData, pieData, seqData, stateData,
                    mindmapData>>)
        => LET els == Shown
           IN  \A i \in DOMAIN els :
                   LET before == getOpacity(els[i].slot, frame, framesPerElement)
                       after == getOpacity(els[i].slot, frame', framesPerElement)
                   IN  /\ JsLe(before, after)
                       /\ before = Num(1) => after = Num(1)

\* C27: for framesPerElement s > 0 and a parsed diagram of N slots, the
\* opacity of every element never decreases as the frame advances, it is 1 at
\* every frame from (N - 1) * s + s / 2 on, and a played diagram reaches that
\* frame (when it lies within the frames played).
C27_OpacityRisesToOne ==
    /\ [][OpacityKept]_vars
    /\ []((framesPerElement > 0 /\ View # "unsupported" /\ PastLastRamp(frame))
              => AllOpaque)
    /\ (framesPerElement > 0 /\ View # "unsupported" /\ PastLastRamp(MaxFrame))
           ~> (View # "unsupported" /\ PastLastRamp(frame) /\ AllOpaque)

\* a diagram of several slots played past its last ramp: everything is shown,
\* and the last slot was still hidden at frame 1
C27_Witness ==
    /\ framesPerElement > 0
    /\ View # "unsupported"
    /\ frame > 1
    /\ PastLastRamp(frame)
    /\ AllOpaque
    /\ LET els == Shown
       IN  \E i \in DOMAIN els : getOpacity(els[i].slot, 1, framesPerElement) = Num(0)

====
